---- MODULE Spec2Model ----
(***************************************************************************)
(* A model of the rc5 crate: the byte-array integers of src/src/bytes.rs,  *)
(* the magic-constant generator of src/src/consts.rs and the cipher of     *)
(* src/src/rc5.rs.                                                         *)
(*                                                                         *)
(* A [u8; N] is a sequence of N bytes, index 0 of the array being element  *)
(* 1 of the sequence.  A u128 is a sequence of 8 limbs of 16 bits, least   *)
(* significant limb first (TLC's integers have 32 bits).  A panic of the   *)
(* code is the value Panic.                                                *)
(***************************************************************************)
EXTENDS Integers, Sequences, FiniteSets, TLC

VARIABLES
    \* a caller of the ByteIntegerExt methods (bytes.rs)
    wx,         \* the [u8; N] the caller starts from
    wrhs,       \* the `rhs` it passes to wrapping_add, wrapping_sub and bitxor
    wn,         \* the `n: u128` it passes to rotate_left and rotate_right
    wops,       \* the methods it has called, each on the result of the one before
    wres,       \* what each call returned
    \* a caller of the constant generator (consts.rs)
    cWBIT,      \* the const generic WBIT it instantiates p and q with
    cWBYTE,     \* the const generic WBYTE
    cp,         \* what p::<WBIT, WBYTE>() returned
    cq,         \* what q::<WBIT, WBYTE>() returned
    \* an RC5 instance and the callers that share it (rc5.rs)
    generics,   \* the const generics the RC5 type is instantiated with
    key,        \* the key given to new
    expanded_key_table,  \* the field of the instance
    calls,      \* for each caller, its call of encrypt or decrypt in progress
    \* a run of expand_key, one loop pass at a time (rc5.rs)
    ek_at,      \* where the run is: "enter", "pack", "extend", "mix", "returned", "panicked"
    ek_idx,     \* the loop variable of the `for` in progress (the pass number when mixing)
    ek_p,       \* the local p
    ek_q,       \* the local q
    ek_key_as_words,             \* the local key_as_words
    ek_expanded_key_table,       \* the local expanded_key_table
    ek_expanded_key_word_idx,    \* the local expanded_key_word_idx
    ek_key_word_idx,             \* the local key_word_idx
    ek_last_expanded_key_word,   \* the local last_expanded_key_word
    ek_last_key_word,            \* the local last_key_word
    ek_rewritten  \* for each mixing pass made, the <<table index, word index>> it wrote

wordVars == <<wx, wrhs, wn, wops, wres>>

constVars == <<cWBIT, cWBYTE, cp, cq>>

cipherVars == <<generics, key, expanded_key_table, calls>>

scheduleVars ==
    <<ek_at, ek_idx, ek_p, ek_q, ek_key_as_words, ek_expanded_key_table,
      ek_expanded_key_word_idx, ek_key_word_idx, ek_last_expanded_key_word,
      ek_last_key_word, ek_rewritten>>

vars == <<wordVars, constVars, cipherVars, scheduleVars>>

(***************************************************************************)
(* Bounds of the model.                                                    *)
(***************************************************************************)
\* Arrays of 0 .. MaxWordLen bytes are given to the byte-integer methods.
MaxWordLen == 3

\* p and q are instantiated with WBIT = 0, 8 .. 8 * MaxConstBytes and with
\* WBYTE = 0 .. MaxConstBytes; a u128 holds 16 bytes.
MaxConstBytes == 17

\* The callers that share one RC5 instance.
NumCallers == 2

\* expand_key is run on keys of 0 .. MaxKeyLen bytes,
MaxKeyLen == 4

\* with KEY_AS_WORDS_LEN and EXPANDED_KEY_TABLE_LEN in 0 .. MaxArrayLen.
MaxArrayLen == 3

(***************************************************************************)
(* Machine integers.                                                       *)
(***************************************************************************)
\* A panic: no array of bytes holds 256.
Panic == <<256>>

IsPanic(v) == v = Panic

\* A panic where an array of arrays is expected.
PanicWords == <<Panic>>

\* A loop `for idx in lo..hi` is an operator XLoop(.., lo, hi, st): the state
\* st goes through the body of the loop for idx = lo, lo + 1, .. hi - 1 in
\* turn.  It runs the range in two halves, which keeps the evaluation of a
\* long loop shallow.  Its first case, st # st, is never taken: TLC
\* evaluates an operator's argument where it is first used, and the test
\* has the state evaluated in each pass and not all at once at the end.

Min(x, y) == IF x < y THEN x ELSE y

Max(x, y) == IF x > y THEN x ELSE y

\* bit k of the byte x
Bit(x, k) == (x \div (2^k)) % 2

\* x & y on bytes
BitAnd8(x, y) ==
    Bit(x, 0) * Bit(y, 0) + 2 * Bit(x, 1) * Bit(y, 1) + 4 * Bit(x, 2) * Bit(y, 2)
    + 8 * Bit(x, 3) * Bit(y, 3) + 16 * Bit(x, 4) * Bit(y, 4)
    + 32 * Bit(x, 5) * Bit(y, 5) + 64 * Bit(x, 6) * Bit(y, 6)
    + 128 * Bit(x, 7) * Bit(y, 7)

\* x & y for every pair of bytes, computed once
AndTable == [x \in 0..255 |-> [y \in 0..255 |-> BitAnd8(x, y)]]

\* x | y on bytes
BitOr8(x, y) == x + y - AndTable[x][y]

\* x ^ y on bytes
BitXor8(x, y) == x + y - 2 * AndTable[x][y]

\* x >> s on a u8, 0 <= s < 8
Shr8(x, s) == x \div (2^s)

\* x << s on a u8, 0 <= s < 8: the bits shifted out of the byte are lost
Shl8(x, s) == (x * (2^s)) % 256

\* [0; N]
Zeros(N) == [i \in 1..N |-> 0]

\* usize::is_power_of_two / u128::is_power_of_two
RECURSIVE is_power_of_two(_)
is_power_of_two(x) ==
    IF x = 0 THEN FALSE
    ELSE IF x = 1 THEN TRUE
    ELSE IF x % 2 = 1 THEN FALSE
    ELSE is_power_of_two(x \div 2)

\* u128::next_power_of_two: the smallest power of two >= x (1 for x = 0)
RECURSIVE NextPow2From(_, _)
NextPow2From(x, pow) == IF pow >= x THEN pow ELSE NextPow2From(x, 2 * pow)

next_power_of_two(x) == NextPow2From(x, 1)

(***************************************************************************)
(* u128: 8 limbs of 16 bits, least significant first.                      *)
(***************************************************************************)
LimbBase == 65536

U128Limbs == 8

\* u128::from_le_bytes on a [u8; 16]
u128_from_le_bytes(b) == [i \in 1..U128Limbs |-> b[2 * i - 1] + 256 * b[2 * i]]

\* u128::to_le_bytes
u128_to_le_bytes(v) ==
    [i \in 1..(2 * U128Limbs) |->
        IF i % 2 = 1 THEN v[(i + 1) \div 2] % 256 ELSE v[i \div 2] \div 256]

\* n % m for a u128 n and 0 < m < 2^15, most significant limb first
RECURSIVE U128RemFrom(_, _, _, _)
U128RemFrom(n, m, i, acc) ==
    CASE acc # acc -> acc
      [] i = 0 -> acc
      [] OTHER -> U128RemFrom(n, m, i - 1, (acc * LimbBase + n[i]) % m)

U128Rem(n, m) == U128RemFrom(n, m, U128Limbs, 0)

\* the u128 of a natural number below 2^31
U128Of(x) ==
    [i \in 1..U128Limbs |->
        IF i = 1 THEN x % LimbBase ELSE IF i = 2 THEN x \div LimbBase ELSE 0]

(***************************************************************************)
(* bytes.rs: impl<const N: usize> ByteIntegerExt for [u8; N]               *)
(***************************************************************************)
\* <[u8; N]>::from_slice(s)
from_slice(s, N) ==
    LET range == Min(Len(s), N)
    IN  [i \in 1..N |-> IF i <= range THEN s[i] ELSE 0]

bitxor(self, rhs) == [idx \in 1..Len(self) |-> BitXor8(self[idx], rhs[idx])]

rotate_left_dest_bit_idx(n, i, num_bits) == (i + n) % num_bits

\* a variant that wraps one bit too early (n >= i for n > i)
rotate_right_dest_bit_idx_ge(n, i, num_bits) ==
    IF n >= i THEN num_bits - (n - i) ELSE i - n

rotate_right_dest_bit_idx(n, i, num_bits) ==
    IF n > i THEN num_bits - (n - i) ELSE i - n

\* the fn pointer get_dest_bit_idx of rotate
get_dest_bit_idx(dir, n, i, num_bits) ==
    IF dir = "left" THEN rotate_left_dest_bit_idx(n, i, num_bits)
    ELSE rotate_right_dest_bit_idx(n, i, num_bits)

\* a variant that reduces the amount by the bit count itself
RotationModulus_bit_count(num_bits) == num_bits

\* the divisor of `n % num_bits` in rotate: the shadowed num_bits
RotationModulus(num_bits) ==
    IF ~is_power_of_two(num_bits) THEN next_power_of_two(num_bits) \div 2
    ELSE num_bits

\* the body of `for idx in 0..num_bits` in rotate
RotateBody(value, n_normalized, dir, output, idx) ==
    IF IsPanic(output) THEN Panic
    ELSE
        LET num_bits == Len(value) * 8
            dest_bit_idx == get_dest_bit_idx(dir, n_normalized, idx, num_bits)
            dest_byte_idx == dest_bit_idx \div 8
            dest_bit_shift == dest_bit_idx % 8
            src_byte_idx == idx \div 8
            src_bit_shift == idx % 8
            src_bit == Shr8(value[src_byte_idx + 1], src_bit_shift)
        IN  IF dest_bit_idx < 0 \/ dest_byte_idx >= Len(value)
            THEN Panic  \* index out of bounds
            ELSE [output EXCEPT ![dest_byte_idx + 1] =
                    BitOr8(@, Shl8(src_bit, dest_bit_shift))]

\* `for idx in 0..num_bits` in rotate
RECURSIVE RotateLoop(_, _, _, _, _, _)
RotateLoop(value, n_normalized, dir, lo, hi, st) ==
    CASE st # st -> st
      [] lo >= hi -> st
      [] hi = lo + 1 -> RotateBody(value, n_normalized, dir, st, lo)
      [] OTHER -> RotateLoop(value, n_normalized, dir, (lo + hi) \div 2, hi,
                    RotateLoop(value, n_normalized, dir, lo, (lo + hi) \div 2, st))

rotate(value, n, dir) ==
    LET num_bytes == Len(value)
        num_bits == num_bytes * 8
        modulus == RotationModulus(num_bits)
    IN  IF modulus = 0 THEN Panic  \* remainder with a divisor of zero
        ELSE
            LET n_normalized == U128Rem(n, modulus)
            IN  IF n_normalized = 0 THEN value
                ELSE RotateLoop(value, n_normalized, dir, 0, num_bits, Zeros(num_bytes))

rotate_left(self, n) == rotate(self, n, "left")

rotate_right(self, n) == rotate(self, n, "right")

\* the body of `for idx in 0..self.len()` in wrapping_add; the state of the
\* loop is <<output, carry>>
WrappingAddBody(self, rhs, st, idx) ==
    IF IsPanic(st) THEN Panic
    ELSE
        LET temp_sum == self[idx + 1] + rhs[idx + 1] + st[2]
        IN  IF temp_sum > 65535 THEN Panic  \* u16 overflow
            ELSE <<[st[1] EXCEPT ![idx + 1] = temp_sum % 256],
                   IF temp_sum \div 256 > 0 THEN 1 ELSE 0>>

\* a variant that drops the carry between bytes
wrapping_add_no_carry(self, rhs) ==
    [idx \in 1..Len(self) |-> (self[idx] + rhs[idx]) % 256]

\* `for idx in 0..self.len()` in wrapping_add
RECURSIVE WrappingAddLoop(_, _, _, _, _)
WrappingAddLoop(self, rhs, lo, hi, st) ==
    CASE st # st -> st
      [] lo >= hi -> st
      [] hi = lo + 1 -> WrappingAddBody(self, rhs, st, lo)
      [] OTHER -> WrappingAddLoop(self, rhs, (lo + hi) \div 2, hi,
                    WrappingAddLoop(self, rhs, lo, (lo + hi) \div 2, st))

\* the output of a loop whose state is <<output, carry or borrow>>
OutputOf(st) == IF IsPanic(st) THEN Panic ELSE st[1]

wrapping_add(self, rhs) ==
    OutputOf(WrappingAddLoop(self, rhs, 0, Len(self), <<Zeros(Len(self)), 0>>))

\* the body of `for idx in 0..self.len()` in wrapping_sub; the state of the
\* loop is <<output, borrow>>
WrappingSubBody(self, rhs, st, idx) ==
    IF IsPanic(st) THEN Panic
    ELSE
        LET temp_diff == self[idx + 1] - rhs[idx + 1] - st[2]
            new_borrow == IF temp_diff < 0 THEN 1 ELSE 0
            fixed == IF temp_diff < 0 THEN temp_diff + 256 ELSE temp_diff
        IN  IF temp_diff < -32768 \/ fixed > 32767 THEN Panic  \* i16 overflow
            ELSE <<[st[1] EXCEPT ![idx + 1] = fixed % 256], new_borrow>>

\* a variant that drops the borrow between bytes
wrapping_sub_no_borrow(self, rhs) ==
    [idx \in 1..Len(self) |-> (self[idx] - rhs[idx] + 256) % 256]

\* `for idx in 0..self.len()` in wrapping_sub
RECURSIVE WrappingSubLoop(_, _, _, _, _)
WrappingSubLoop(self, rhs, lo, hi, st) ==
    CASE st # st -> st
      [] lo >= hi -> st
      [] hi = lo + 1 -> WrappingSubBody(self, rhs, st, lo)
      [] OTHER -> WrappingSubLoop(self, rhs, (lo + hi) \div 2, hi,
                    WrappingSubLoop(self, rhs, lo, (lo + hi) \div 2, st))

wrapping_sub(self, rhs) ==
    OutputOf(WrappingSubLoop(self, rhs, 0, Len(self), <<Zeros(Len(self)), 0>>))

(***************************************************************************)
(* num_bigint::BigInt: the non-negative ones, as base-256 digits, least    *)
(* significant first, without leading zero digits (zero is <<>>).          *)
(***************************************************************************)
\* a without its leading zero digits
BigNorm(a) ==
    LET n == Len(a)
        zeros == CHOOSE z \in 0..n :
                    /\ z = n \/ a[n - z] # 0
                    /\ \A j \in (n - z + 1)..n : a[j] = 0
    IN  SubSeq(a, 1, n - zeros)

Digit(a, i) == IF i <= Len(a) THEN a[i] ELSE 0

RECURSIVE BigOfNat(_)
BigOfNat(x) == IF x = 0 THEN <<>> ELSE <<x % 256>> \o BigOfNat(x \div 256)

\* the carry into digit i of a sum whose digits, before the carries, are
\* sums (each at most 510): a carry goes through the digits that are 255,
\* so it is the one sent by the nearest digit below i that is not 255, sent
\* when that digit is 256 or more, or else the carry into the first digit
CarryInto(sums, i, carry) ==
    LET back == CHOOSE d \in 1..i :
                    /\ d = i \/ sums[i - d] # 255
                    /\ \A k \in (i - d + 1)..(i - 1) : sums[k] = 255
    IN  IF back = i THEN carry = 1 ELSE sums[i - back] >= 256

\* a + b + carry, carry being 0 or 1
BigAddCarry(a, b, carry) ==
    LET n == Max(Len(a), Len(b))
        sums == [i \in 1..(n + 1) |-> Digit(a, i) + Digit(b, i)]
    IN  BigNorm([i \in 1..(n + 1) |->
            (sums[i] + IF CarryInto(sums, i, carry) THEN 1 ELSE 0) % 256])

BigAdd(a, b) == BigAddCarry(a, b, 0)

\* the borrow from digit i of a difference whose digits, before the
\* borrows, are diffs: a borrow goes through the digits that are 0, so it
\* is the one of the nearest digit below i that is not 0, taken when that
\* digit is negative
BorrowFrom(diffs, i) ==
    LET back == CHOOSE d \in 1..i :
                    /\ d = i \/ diffs[i - d] # 0
                    /\ \A k \in (i - d + 1)..(i - 1) : diffs[k] = 0
    IN  back < i /\ diffs[i - back] < 0

\* a - b for a >= b
BigSub(a, b) ==
    LET n == Max(Len(a), Len(b))
        diffs == [i \in 1..n |-> Digit(a, i) - Digit(b, i)]
    IN  BigNorm([i \in 1..n |->
            (diffs[i] + 256 - IF BorrowFrom(diffs, i) THEN 1 ELSE 0) % 256])

\* a >= b: no digit of a is smaller where all the digits above it agree
BigGE(a, b) ==
    IF Len(a) # Len(b) THEN Len(a) > Len(b)
    ELSE ~ \E i \in 1..Len(a) :
            /\ a[i] < b[i]
            /\ \A j \in (i + 1)..Len(a) : a[j] = b[j]

\* a * k * 256^shift for one digit k: the low bytes of the products of the
\* digits plus their high bytes one digit up
BigMulDigit(a, k, shift) ==
    Zeros(shift) \o
        BigAdd([i \in 1..Len(a) |-> (a[i] * k) % 256],
               <<0>> \o [i \in 1..Len(a) |-> (a[i] * k) \div 256])

\* the sum of a * b[j] * 256^(j-1) for j = lo .. hi - 1
RECURSIVE BigMulLoop(_, _, _, _, _)
BigMulLoop(a, b, lo, hi, st) ==
    CASE st # st -> st
      [] lo >= hi -> st
      [] hi = lo + 1 -> BigAdd(st, BigMulDigit(a, b[lo], lo - 1))
      [] OTHER -> BigMulLoop(a, b, (lo + hi) \div 2, hi,
                    BigMulLoop(a, b, lo, (lo + hi) \div 2, st))

BigMul(a, b) ==
    IF a = <<>> \/ b = <<>> THEN <<>>
    ELSE BigNorm(BigMulLoop(a, b, 1, Len(b) + 1, <<>>))

\* bit i (0-based) of a
BigBit(a, i) == Bit(Digit(a, (i \div 8) + 1), i % 8)

\* 2 * a + bit: each digit doubled, with the top bit of the digit below
BigDouble(a, bit) ==
    BigNorm([i \in 1..(Len(a) + 1) |->
        (2 * Digit(a, i) + IF i = 1 THEN bit ELSE a[i - 1] \div 128) % 256])

\* one bit of long division: the quotient and remainder so far, with bit b
\* of the dividend brought down
DivBit(acc, b, d) ==
    LET r2 == BigDouble(acc.rem, b)
    IN  IF BigGE(r2, d)
        THEN [quot |-> BigDouble(acc.quot, 1), rem |-> BigSub(r2, d)]
        ELSE [quot |-> BigDouble(acc.quot, 0), rem |-> r2]

\* long division over the bits of a, from the most significant one down
RECURSIVE BigDivRemLoop(_, _, _, _, _)
BigDivRemLoop(a, d, lo, hi, st) ==
    CASE st # st -> st
      [] lo >= hi -> st
      [] hi = lo + 1 -> DivBit(st, BigBit(a, 8 * Len(a) - 1 - lo), d)
      [] OTHER -> BigDivRemLoop(a, d, (lo + hi) \div 2, hi,
                    BigDivRemLoop(a, d, lo, (lo + hi) \div 2, st))

\* the quotient and the remainder of a by d
BigDivRem(a, d) ==
    IF d = <<>> THEN Panic  \* "attempt to divide by zero"
    ELSE BigDivRemLoop(a, d, 0, 8 * Len(a), [quot |-> <<>>, rem |-> <<>>])

\* 2^k
BigPow2(k) == Zeros(k \div 8) \o <<2^(k % 8)>>

\* BigInt::to_u128: the u128, or None when the value needs more than 128 bits
None == <<>>

BigToU128(a) ==
    IF Len(a) > 2 * U128Limbs THEN None
    ELSE u128_from_le_bytes(from_slice(a, 2 * U128Limbs))

(***************************************************************************)
(* num_rational::BigRational: the non-negative ones, as a numerator and a  *)
(* denominator that need not be in lowest terms.                           *)
(***************************************************************************)
Ratio(n, d) == [numer |-> n, denom |-> d]

\* BigRational::zero(), ::one(), from_integer
RatZero == Ratio(<<>>, <<1>>)

RatOne == Ratio(<<1>>, <<1>>)

RatOfInteger(n) == Ratio(n, <<1>>)

\* a + b over the larger denominator when it is a multiple of the other one,
\* and over the product of the denominators otherwise
RatAdd(a, b) ==
    LET ab == BigDivRem(a.denom, b.denom)
        ba == BigDivRem(b.denom, a.denom)
    IN  IF ab.rem = <<>>
        THEN Ratio(BigAdd(a.numer, BigMul(b.numer, ab.quot)), a.denom)
        ELSE IF ba.rem = <<>>
        THEN Ratio(BigAdd(BigMul(a.numer, ba.quot), b.numer), b.denom)
        ELSE Ratio(BigAdd(BigMul(a.numer, b.denom), BigMul(b.numer, a.denom)),
                   BigMul(a.denom, b.denom))

\* a - b for a >= b and b an integer
RatSubInteger(a, b) ==
    Ratio(BigSub(a.numer, BigMul(b.numer, a.denom)), a.denom)

RatMul(a, b) == Ratio(BigMul(a.numer, b.numer), BigMul(a.denom, b.denom))

\* a / b, b # 0
RatDiv(a, b) == Ratio(BigMul(a.numer, b.denom), BigMul(a.denom, b.numer))

\* a variant that rounds to the nearest integer (half up)
RatToInteger_nearest(a) ==
    BigDivRem(BigAdd(BigMul(a.numer, <<2>>), a.denom), BigMul(a.denom, <<2>>)).quot

\* Ratio::to_integer: the integer part (rounding towards zero)
RatToInteger(a) == BigDivRem(a.numer, a.denom).quot

\* Ratio::to_u128: to_integer().to_u128()
RatToU128(a) == BigToU128(RatToInteger(a))

(***************************************************************************)
(* consts.rs                                                               *)
(***************************************************************************)
\* const TERMS in p
TERMS_P == 34

\* const TERMS in q
TERMS_Q == 93

big_rational_two == RatOfInteger(<<2>>)

\* big_rational_two().pow(WBIT)
RatTwoPow(WBIT) == RatOfInteger(BigPow2(WBIT))

\* a variant that returns its argument as it is
odd_unchanged(value) == value

\* odd on a u128; value + 1 cannot overflow, value being even
odd(value) ==
    IF value[1] % 2 = 0 THEN [value EXCEPT ![1] = @ + 1] ELSE value

\* `for idx in 1..=n` in factorial
RECURSIVE FactorialLoop(_, _, _)
FactorialLoop(lo, hi, st) ==
    CASE st # st -> st
      [] lo >= hi -> st
      [] hi = lo + 1 -> BigMul(st, BigOfNat(lo))
      [] OTHER -> FactorialLoop((lo + hi) \div 2, hi,
                    FactorialLoop(lo, (lo + hi) \div 2, st))

factorial(n) == FactorialLoop(1, n + 1, <<1>>)

\* the body of `for idx in 0..terms` in approximate_e
ApproximateEBody(e, idx) ==
    RatAdd(e, RatDiv(RatOfInteger(<<1>>), RatOfInteger(factorial(idx))))

\* `for idx in 0..terms` in approximate_e
RECURSIVE ApproximateELoop(_, _, _)
ApproximateELoop(lo, hi, st) ==
    CASE st # st -> st
      [] lo >= hi -> st
      [] hi = lo + 1 -> ApproximateEBody(st, lo)
      [] OTHER -> ApproximateELoop((lo + hi) \div 2, hi,
                    ApproximateELoop(lo, (lo + hi) \div 2, st))

approximate_e(terms) == ApproximateELoop(0, terms, RatZero)

\* `for _ in 0..terms` in approximate_golden_ratio
RECURSIVE GoldenRatioLoop(_, _, _)
GoldenRatioLoop(lo, hi, st) ==
    CASE st # st -> st
      [] lo >= hi -> st
      [] hi = lo + 1 -> RatDiv(RatOne, RatAdd(RatOne, st))
      [] OTHER -> GoldenRatioLoop((lo + hi) \div 2, hi,
                    GoldenRatioLoop(lo, (lo + hi) \div 2, st))

approximate_golden_ratio(terms) == RatAdd(GoldenRatioLoop(0, terms, RatZero), RatOne)

\* the two series do not depend on the word size: each is summed once, and
\* p and q have it summed (the case e # e, never taken) before they go on
E_P == approximate_e(TERMS_P)

PHI_Q == approximate_golden_ratio(TERMS_Q)

\* p::<WBIT, WBYTE>()
p(WBIT, WBYTE) ==
    LET e == E_P
        result == RatMul(RatSubInteger(e, big_rational_two), RatTwoPow(WBIT))
        as_u128 == RatToU128(result)
    IN  CASE e # e -> Panic
          [] as_u128 = None -> Panic  \* "Unable to represent constant p."
          [] OTHER -> from_slice(u128_to_le_bytes(odd(as_u128)), WBYTE)

\* q::<WBIT, WBYTE>()
q(WBIT, WBYTE) ==
    LET phi == PHI_Q
        result == RatMul(RatSubInteger(phi, RatOne), RatTwoPow(WBIT))
        as_u128 == RatToU128(result)
    IN  CASE phi # phi -> Panic
          [] as_u128 = None -> Panic  \* "Unable to represent constant q."
          [] OTHER -> from_slice(u128_to_le_bytes(odd(as_u128)), WBYTE)

(***************************************************************************)
(* rc5.rs: impl RC5<WORD_BIT_SIZE, ROUNDS, KEY_SIZE, WORD_SIZE,            *)
(* BLOCK_SIZE, EXPANDED_KEY_TABLE_LEN, KEY_AS_WORDS_LEN>.  g is the record *)
(* of the const generics.  The signature of expand_key names its element   *)
(* type [u8; WORD_BIT_SIZE]; the body builds, and the field holds,         *)
(* [u8; WORD_SIZE], which is what is modelled.                             *)
(***************************************************************************)
\* u128::from_le_bytes(<[u8; 16]>::from_slice(&word))
WordAsU128(word) == u128_from_le_bytes(from_slice(word, 2 * U128Limbs))

\* a variant that adds each key byte without rotating the word first
KeyAsWordsBody_unrotated(g, k, key_as_words, idx) ==
    IF key_as_words = PanicWords THEN PanicWords
    ELSE IF g.WORD_SIZE = 0 THEN PanicWords
    ELSE IF idx \div g.WORD_SIZE >= Len(key_as_words) THEN PanicWords
    ELSE [key_as_words EXCEPT ![idx \div g.WORD_SIZE + 1] =
            wrapping_add(@, from_slice(<<k[idx + 1]>>, g.WORD_SIZE))]

\* the body of `for idx in (0..KEY_SIZE).rev()` in expand_key
KeyAsWordsBody(g, k, key_as_words, idx) ==
    IF key_as_words = PanicWords THEN PanicWords
    ELSE IF g.WORD_SIZE = 0 THEN PanicWords  \* idx / WORD_SIZE divides by zero
    ELSE IF idx \div g.WORD_SIZE >= Len(key_as_words) THEN PanicWords  \* index out of bounds
    ELSE
        LET key_word == key_as_words[idx \div g.WORD_SIZE + 1]
            rotated == rotate_left(key_word, U128Of(8))
        IN  IF IsPanic(rotated) THEN PanicWords
            ELSE [key_as_words EXCEPT ![idx \div g.WORD_SIZE + 1] =
                    wrapping_add(rotated, from_slice(<<k[idx + 1]>>, g.WORD_SIZE))]

\* the body of `for idx in 1..expanded_key_table.len()`
TableInitBody(q_word, table, idx) ==
    [table EXCEPT ![idx + 1] = wrapping_add(table[idx], q_word)]

\* one pass of the mixing loop; the state of the loop is the tuple
\* <<expanded_key_table, key_as_words, expanded_key_word_idx, key_word_idx,
\*   last_expanded_key_word, last_key_word>>
MixStep(st) ==
    LET table == st[1]
        words == st[2]
        expanded_key_word_idx == st[3]
        key_word_idx == st[4]
        last_expanded_key_word == st[5]
        last_key_word == st[6]
    IN  IF IsPanic(st) THEN Panic
        ELSE IF expanded_key_word_idx >= Len(table) THEN Panic  \* index out of bounds
        ELSE
        LET expanded_key_word ==
                rotate_left(
                    wrapping_add(
                        wrapping_add(table[expanded_key_word_idx + 1], last_expanded_key_word),
                        last_key_word),
                    U128Of(3))
        IN  IF IsPanic(expanded_key_word) THEN Panic
            ELSE IF key_word_idx >= Len(words) THEN Panic  \* index out of bounds
            ELSE
            LET key_word ==
                    rotate_left(
                        wrapping_add(
                            wrapping_add(words[key_word_idx + 1], expanded_key_word),
                            last_key_word),
                        WordAsU128(wrapping_add(expanded_key_word, last_key_word)))
            IN  IF IsPanic(key_word) THEN Panic
                ELSE <<[table EXCEPT ![expanded_key_word_idx + 1] = expanded_key_word],
                       [words EXCEPT ![key_word_idx + 1] = key_word],
                       (expanded_key_word_idx + 1) % Len(table),
                       (key_word_idx + 1) % Len(words),
                       expanded_key_word,
                       key_word>>

\* `for idx in (0..KEY_SIZE).rev()`: pass number i has idx = KEY_SIZE - 1 - i
RECURSIVE KeyAsWordsLoop(_, _, _, _, _)
KeyAsWordsLoop(g, k, lo, hi, st) ==
    CASE st # st -> st
      [] lo >= hi -> st
      [] hi = lo + 1 -> KeyAsWordsBody(g, k, st, g.KEY_SIZE - 1 - lo)
      [] OTHER -> KeyAsWordsLoop(g, k, (lo + hi) \div 2, hi,
                    KeyAsWordsLoop(g, k, lo, (lo + hi) \div 2, st))

\* `for idx in 1..expanded_key_table.len()`
RECURSIVE TableInitLoop(_, _, _, _)
TableInitLoop(q_word, lo, hi, st) ==
    CASE st # st -> st
      [] lo >= hi -> st
      [] hi = lo + 1 -> TableInitBody(q_word, st, lo)
      [] OTHER -> TableInitLoop(q_word, (lo + hi) \div 2, hi,
                    TableInitLoop(q_word, lo, (lo + hi) \div 2, st))

\* `for _ in 0..3 * max(KEY_AS_WORDS_LEN, EXPANDED_KEY_TABLE_LEN)`
RECURSIVE MixLoop(_, _, _)
MixLoop(lo, hi, st) ==
    CASE st # st -> st
      [] lo >= hi -> st
      [] hi = lo + 1 -> MixStep(st)
      [] OTHER -> MixLoop((lo + hi) \div 2, hi,
                    MixLoop(lo, (lo + hi) \div 2, st))

\* RC5::expand_key
expand_key(g, k) ==
    LET p_word == p(g.WORD_BIT_SIZE, g.WORD_SIZE)
        q_word == q(g.WORD_BIT_SIZE, g.WORD_SIZE)
        key_as_words ==
            KeyAsWordsLoop(g, k, 0, g.KEY_SIZE,
                    [i \in 1..g.KEY_AS_WORDS_LEN |-> Zeros(g.WORD_SIZE)])
    IN  IF IsPanic(p_word) \/ IsPanic(q_word) \/ key_as_words = PanicWords
        THEN PanicWords
        ELSE IF g.EXPANDED_KEY_TABLE_LEN = 0 THEN PanicWords  \* expanded_key_table[0]
        ELSE
        LET initial ==
                TableInitLoop(q_word, 1, g.EXPANDED_KEY_TABLE_LEN,
                        [[i \in 1..g.EXPANDED_KEY_TABLE_LEN |-> Zeros(g.WORD_SIZE)]
                            EXCEPT ![1] = p_word])
            mixed ==
                MixLoop(0, 3 * Max(g.KEY_AS_WORDS_LEN, g.EXPANDED_KEY_TABLE_LEN),
                        <<initial, key_as_words, 0, 0, Zeros(g.WORD_SIZE), Zeros(g.WORD_SIZE)>>)
        IN  IF IsPanic(mixed) THEN PanicWords ELSE mixed[1]

\* RC5::new
new(g, k) == expand_key(g, k)

\* a variant that does not add the first two words of the table
EncryptEnter_unkeyed(self, g, plaintext) ==
    <<SubSeq(plaintext, 1, g.WORD_SIZE),
      SubSeq(plaintext, g.WORD_SIZE + 1, Len(plaintext)),
      1>>

\* encrypt up to its loop; the locals of encrypt are the tuple <<a, b, idx>>
EncryptEnter(self, g, plaintext) ==
    IF g.WORD_SIZE > Len(plaintext) THEN Panic  \* split_at
    ELSE IF Len(plaintext) - g.WORD_SIZE # g.WORD_SIZE THEN Panic  \* try_into().unwrap()
    ELSE IF Len(self) < 2 THEN Panic  \* index out of bounds
    ELSE <<wrapping_add(SubSeq(plaintext, 1, g.WORD_SIZE), self[1]),
           wrapping_add(SubSeq(plaintext, g.WORD_SIZE + 1, Len(plaintext)), self[2]),
           1>>

\* the body of `for idx in 1..=ROUNDS` in encrypt
EncryptRoundBody(self, locals) ==
    LET a == locals[1]
        b == locals[2]
        idx == locals[3]
        rotated_a == rotate_left(bitxor(a, b), WordAsU128(b))
    IN  IF IsPanic(locals) THEN Panic
        ELSE IF IsPanic(rotated_a) \/ 2 * idx >= Len(self) THEN Panic
        ELSE
        LET new_a == wrapping_add(rotated_a, self[2 * idx + 1])
            rotated_b == rotate_left(bitxor(b, new_a), WordAsU128(new_a))
        IN  IF IsPanic(rotated_b) \/ 2 * idx + 1 >= Len(self) THEN Panic
            ELSE <<new_a, wrapping_add(rotated_b, self[2 * idx + 2]), idx + 1>>

\* encrypt and decrypt after their loops: the two words make the output
BlockOf(g, a, b) ==
    IF g.WORD_SIZE > g.BLOCK_SIZE THEN Panic  \* split_at_mut
    ELSE IF Len(a) # g.WORD_SIZE \/ Len(b) # g.BLOCK_SIZE - g.WORD_SIZE
    THEN Panic  \* copy_from_slice
    ELSE a \o b

EncryptLeave(g, locals) ==
    IF IsPanic(locals) THEN Panic ELSE BlockOf(g, locals[1], locals[2])

\* `for idx in 1..=ROUNDS` in encrypt (idx is carried in the locals)
RECURSIVE EncryptLoop(_, _, _, _)
EncryptLoop(self, lo, hi, st) ==
    CASE st # st -> st
      [] lo >= hi -> st
      [] hi = lo + 1 -> EncryptRoundBody(self, st)
      [] OTHER -> EncryptLoop(self, (lo + hi) \div 2, hi,
                    EncryptLoop(self, lo, (lo + hi) \div 2, st))

\* RC5::encrypt
encrypt(self, g, plaintext) ==
    EncryptLeave(g, EncryptLoop(self, 1, g.ROUNDS + 1, EncryptEnter(self, g, plaintext)))

\* decrypt up to its loop; the locals of decrypt are the tuple <<a, b, idx>>
DecryptEnter(g, ciphertext) ==
    IF g.WORD_SIZE > Len(ciphertext) THEN Panic  \* split_at
    ELSE IF Len(ciphertext) - g.WORD_SIZE # g.WORD_SIZE THEN Panic  \* try_into().unwrap()
    ELSE <<SubSeq(ciphertext, 1, g.WORD_SIZE),
           SubSeq(ciphertext, g.WORD_SIZE + 1, Len(ciphertext)),
           g.ROUNDS>>

\* a variant that undoes `a` before `b`
DecryptRoundBody_a_first(self, locals) ==
    LET a == locals[1]
        b == locals[2]
        idx == locals[3]
        new_a == bitxor(rotate_right(wrapping_sub(a, self[2 * idx + 1]), WordAsU128(b)), b)
        new_b == bitxor(rotate_right(wrapping_sub(b, self[2 * idx + 2]), WordAsU128(new_a)), new_a)
    IN  <<new_a, new_b, idx - 1>>

\* the body of `for idx in (1..=ROUNDS).rev()` in decrypt
DecryptRoundBody(self, locals) ==
    LET a == locals[1]
        b == locals[2]
        idx == locals[3]
    IN  IF IsPanic(locals) THEN Panic
        ELSE IF 2 * idx + 1 >= Len(self) THEN Panic  \* index out of bounds
        ELSE
        LET rotated_b == rotate_right(wrapping_sub(b, self[2 * idx + 2]), WordAsU128(a))
        IN  IF IsPanic(rotated_b) THEN Panic
            ELSE
            LET new_b == bitxor(rotated_b, a)
                rotated_a == rotate_right(wrapping_sub(a, self[2 * idx + 1]), WordAsU128(new_b))
            IN  IF IsPanic(rotated_a) THEN Panic
                ELSE <<bitxor(rotated_a, new_b), new_b, idx - 1>>

DecryptLeave(self, g, locals) ==
    IF IsPanic(locals) THEN Panic
    ELSE IF Len(self) < 2 THEN Panic  \* index out of bounds
    ELSE BlockOf(g, wrapping_sub(locals[1], self[1]), wrapping_sub(locals[2], self[2]))

\* `for idx in (1..=ROUNDS).rev()` in decrypt (idx is carried in the locals)
RECURSIVE DecryptLoop(_, _, _, _)
DecryptLoop(self, lo, hi, st) ==
    CASE st # st -> st
      [] lo >= hi -> st
      [] hi = lo + 1 -> DecryptRoundBody(self, st)
      [] OTHER -> DecryptLoop(self, (lo + hi) \div 2, hi,
                    DecryptLoop(self, lo, (lo + hi) \div 2, st))

\* RC5::decrypt
decrypt(self, g, ciphertext) ==
    DecryptLeave(self, g, DecryptLoop(self, 1, g.ROUNDS + 1, DecryptEnter(g, ciphertext)))

(***************************************************************************)
(* A caller of the byte-integer methods: it draws an array, calls one      *)
(* method on it, and may call the inverse method on the result with the    *)
(* same operand.                                                           *)
(***************************************************************************)
ByteSamples == {0, 1, 128, 255}

RhsByteSamples == {0, 1, 255}

\* the arrays of N bytes with one bit set
OneBitWords(N) ==
    {[i \in 1..N |-> IF i = j THEN 2^k ELSE 0] : j \in 1..N, k \in 0..7}

\* two arrays of the crate's own tests, cut or padded to N bytes
DenseWords(N) == {from_slice(<<141, 10, 191, 72>>, N), from_slice(<<216, 67, 199, 91>>, N)}

WordSamples(N) == [1..N -> ByteSamples] \cup OneBitWords(N) \cup DenseWords(N)

RhsSamples(N) == [1..N -> RhsByteSamples] \cup DenseWords(N)

\* rotation amounts: every amount up to past the widest array, and amounts
\* whose high limbs are set (2^64, 2^127 + 5, u128::MAX, 12520077)
RotSamples ==
    {U128Of(k) : k \in 0..(8 * MaxWordLen + 1)}
    \cup {<<0, 0, 0, 0, 1, 0, 0, 0>>, <<5, 0, 0, 0, 0, 0, 0, 32768>>,
          [i \in 1..U128Limbs |-> 65535], U128Of(12520077)}

\* no call made yet, or the part of the crate a caller does not use
Pending == <<-1>>

WordIdle == wx = <<>> /\ wrhs = <<>> /\ wn = U128Of(0) /\ wops = <<>> /\ wres = <<>>

ConstIdle == cWBIT = 0 /\ cWBYTE = 0 /\ cp = Pending /\ cq = Pending

\* no instance yet
Unbuilt == <<Pending>>

CipherIdle ==
    /\ generics = [WORD_BIT_SIZE |-> 0, ROUNDS |-> 0, KEY_SIZE |-> 0, WORD_SIZE |-> 0,
                   BLOCK_SIZE |-> 0, EXPANDED_KEY_TABLE_LEN |-> 0, KEY_AS_WORDS_LEN |-> 0]
    /\ key = <<>>
    /\ expanded_key_table = Unbuilt
    /\ calls = <<>>

ScheduleIdle ==
    /\ ek_at = "none"
    /\ ek_idx = 0
    /\ ek_p = Pending
    /\ ek_q = Pending
    /\ ek_key_as_words = <<>>
    /\ ek_expanded_key_table = <<>>
    /\ ek_expanded_key_word_idx = 0
    /\ ek_key_word_idx = 0
    /\ ek_last_expanded_key_word = <<>>
    /\ ek_last_key_word = <<>>
    /\ ek_rewritten = <<>>

Returned == IF wops = <<>> THEN wx ELSE wres[Len(wres)]

\* a first call is made on wx; a second call only undoes the first
MayCall(method, inverse) ==
    /\ Returned # Panic
    /\ \/ wops = <<>>
       \/ wops = <<inverse>>

WordInit ==
    /\ \E N \in 0..MaxWordLen : wx \in WordSamples(N)
    /\ wrhs = <<>>
    /\ wn = U128Of(0)
    /\ wops = <<>>
    /\ wres = <<>>
    /\ ConstIdle
    /\ CipherIdle
    /\ ScheduleIdle

CallRotateLeft(n) ==
    /\ MayCall("rotate_left", "rotate_right")
    /\ wops # <<>> => n = wn
    /\ wn' = n
    /\ wops' = Append(wops, "rotate_left")
    /\ wres' = Append(wres, rotate_left(Returned, n))
    /\ UNCHANGED <<wx, wrhs, constVars, cipherVars, scheduleVars>>

CallRotateRight(n) ==
    /\ MayCall("rotate_right", "rotate_left")
    /\ wops # <<>> => n = wn
    /\ wn' = n
    /\ wops' = Append(wops, "rotate_right")
    /\ wres' = Append(wres, rotate_right(Returned, n))
    /\ UNCHANGED <<wx, wrhs, constVars, cipherVars, scheduleVars>>

CallWrappingAdd(rhs) ==
    /\ MayCall("wrapping_add", "wrapping_sub")
    /\ wops # <<>> => rhs = wrhs
    /\ wrhs' = rhs
    /\ wops' = Append(wops, "wrapping_add")
    /\ wres' = Append(wres, wrapping_add(Returned, rhs))
    /\ UNCHANGED <<wx, wn, constVars, cipherVars, scheduleVars>>

CallWrappingSub(rhs) ==
    /\ MayCall("wrapping_sub", "wrapping_add")
    /\ wops # <<>> => rhs = wrhs
    /\ wrhs' = rhs
    /\ wops' = Append(wops, "wrapping_sub")
    /\ wres' = Append(wres, wrapping_sub(Returned, rhs))
    /\ UNCHANGED <<wx, wn, constVars, cipherVars, scheduleVars>>

CallBitxor(rhs) ==
    /\ MayCall("bitxor", "bitxor")
    /\ wops # <<>> => rhs = wrhs
    /\ wrhs' = rhs
    /\ wops' = Append(wops, "bitxor")
    /\ wres' = Append(wres, bitxor(Returned, rhs))
    /\ UNCHANGED <<wx, wn, constVars, cipherVars, scheduleVars>>

\* the operands a call may take: any sample for a first call, the first
\* call's operand for the call that undoes it
RotChoices == IF wops = <<>> THEN RotSamples ELSE {wn}

RhsChoices == IF wops = <<>> THEN RhsSamples(Len(wx)) ELSE {wrhs}

WordNext ==
    \/ \E n \in RotChoices : CallRotateLeft(n)
    \/ \E n \in RotChoices : CallRotateRight(n)
    \/ \E rhs \in RhsChoices : CallWrappingAdd(rhs)
    \/ \E rhs \in RhsChoices : CallWrappingSub(rhs)
    \/ \E rhs \in RhsChoices : CallBitxor(rhs)

SpecWord == WordInit /\ [][WordNext]_vars

(***************************************************************************)
(* A caller of the constant generator: it instantiates p and q with some   *)
(* WBIT and WBYTE (two independent const generics) and calls each once.    *)
(***************************************************************************)
ConstInit ==
    /\ cWBIT \in {8 * k : k \in 0..MaxConstBytes}
    /\ cWBYTE \in 0..MaxConstBytes
    /\ cp = Pending
    /\ cq = Pending
    /\ WordIdle
    /\ CipherIdle
    /\ ScheduleIdle

CallP ==
    /\ cp = Pending
    /\ cp' = p(cWBIT, cWBYTE)
    /\ UNCHANGED <<cWBIT, cWBYTE, cq, wordVars, cipherVars, scheduleVars>>

CallQ ==
    /\ cq = Pending
    /\ cq' = q(cWBIT, cWBYTE)
    /\ UNCHANGED <<cWBIT, cWBYTE, cp, wordVars, cipherVars, scheduleVars>>

ConstNext == CallP \/ CallQ

SpecConst == ConstInit /\ [][ConstNext]_vars

(***************************************************************************)
(* An RC5 instance shared by several callers.  new runs once; after it     *)
(* each caller calls encrypt on a block and then decrypt on what encrypt   *)
(* returned.  Nothing synchronises the callers (&self): a step of the      *)
(* model is new, the entry of a call, one pass of its loop, or its return. *)
(***************************************************************************)
Generics(w, r, k, ws, bs, t, c) ==
    [WORD_BIT_SIZE |-> w, ROUNDS |-> r, KEY_SIZE |-> k, WORD_SIZE |-> ws,
     BLOCK_SIZE |-> bs, EXPANDED_KEY_TABLE_LEN |-> t, KEY_AS_WORDS_LEN |-> c]

\* the bytes 00 01 02 .. of the tests
Counting(n) == [i \in 1..n |-> i - 1]

AllOnes(n) == [i \in 1..n |-> 255]

\* RC5::<8, 12, 4, 1, 2, 26, 4>
RC5_8_12_4 == Generics(8, 12, 4, 1, 2, 26, 4)

\* RC5::<24, 4, 0, 3, 6, 10, 1>
RC5_24_4_0 == Generics(24, 4, 0, 3, 6, 10, 1)

\* RC5::<80, 4, 12, 10, 20, 10, 2>
RC5_80_4_12 == Generics(80, 4, 12, 10, 20, 10, 2)

\* a small instantiation whose key does not fill its last word
RC5_16_1_3 == Generics(16, 1, 3, 2, 4, 4, 2)

\* an instantiation whose EXPANDED_KEY_TABLE_LEN is not 2 * (ROUNDS + 1): the
\* type takes the seven const generics as they are given
RC5_8_1_1_short == Generics(8, 1, 1, 1, 2, 2, 1)

\* the instantiations, with the keys and the blocks their callers use and
\* the number of callers that share an instance (one for the widest word)
Instances ==
    { [generics |-> RC5_8_12_4, keys |-> {Counting(4)}, blocks |-> {Counting(2)},
       callers |-> NumCallers],
      [generics |-> RC5_24_4_0, keys |-> {<<>>}, blocks |-> {Counting(6)},
       callers |-> NumCallers],
      [generics |-> RC5_80_4_12, keys |-> {Counting(12)},
       blocks |-> {Counting(20), AllOnes(20)}, callers |-> 1],
      [generics |-> RC5_16_1_3, keys |-> {Counting(3), AllOnes(3), Zeros(3)},
       blocks |-> {Counting(4), AllOnes(4)}, callers |-> NumCallers],
      [generics |-> RC5_8_1_1_short, keys |-> {Counting(1)}, blocks |-> {Counting(2)},
       callers |-> 1] }

Blocks(g) == (CHOOSE i \in Instances : i.generics = g).blocks

Callers == DOMAIN calls

\* a caller between calls; done lists <<method, input, output>> of its calls
IdleCall == [op |-> "idle", input |-> <<>>, locals |-> <<>>, done |-> <<>>]

Init ==
    /\ \E i \in Instances :
            /\ generics = i.generics
            /\ key \in i.keys
            /\ calls = [c \in 1..i.callers |-> IdleCall]
    /\ expanded_key_table = Unbuilt
    /\ WordIdle
    /\ ConstIdle
    /\ ScheduleIdle

\* new has returned an instance
Built == expanded_key_table # Unbuilt /\ expanded_key_table # PanicWords

New ==
    /\ expanded_key_table = Unbuilt
    /\ expanded_key_table' = new(generics, key)
    /\ UNCHANGED <<generics, key, calls, wordVars, constVars, scheduleVars>>

StartEncrypt(c, plaintext) ==
    /\ Built
    /\ calls[c].op = "idle"
    /\ calls' = [calls EXCEPT ![c] =
            [@ EXCEPT !.op = "encrypt", !.input = plaintext,
                      !.locals = EncryptEnter(expanded_key_table, generics, plaintext)]]
    /\ UNCHANGED <<generics, key, expanded_key_table, wordVars, constVars, scheduleVars>>

\* a variant that keeps the word `a` of each pass in the table
EncryptRound_scratch(c) ==
    /\ calls[c].op = "encrypt"
    /\ ~IsPanic(calls[c].locals)
    /\ calls[c].locals[3] <= generics.ROUNDS
    /\ calls' = [calls EXCEPT ![c].locals = EncryptRoundBody(expanded_key_table, @)]
    /\ expanded_key_table' =
            IF IsPanic(calls'[c].locals) THEN expanded_key_table
            ELSE [expanded_key_table EXCEPT ![1] = calls'[c].locals[1]]
    /\ UNCHANGED <<generics, key, wordVars, constVars, scheduleVars>>

EncryptRound(c) ==
    /\ calls[c].op = "encrypt"
    /\ ~IsPanic(calls[c].locals)
    /\ calls[c].locals[3] <= generics.ROUNDS
    /\ calls' = [calls EXCEPT ![c].locals = EncryptRoundBody(expanded_key_table, @)]
    /\ UNCHANGED <<generics, key, expanded_key_table, wordVars, constVars, scheduleVars>>

EncryptReturn(c) ==
    /\ calls[c].op = "encrypt"
    /\ IF IsPanic(calls[c].locals) THEN TRUE ELSE calls[c].locals[3] > generics.ROUNDS
    /\ calls' = [calls EXCEPT ![c] =
            [op |-> "idle", input |-> <<>>, locals |-> <<>>,
             done |-> Append(@.done,
                        <<"encrypt", @.input, EncryptLeave(generics, @.locals)>>)]]
    /\ UNCHANGED <<generics, key, expanded_key_table, wordVars, constVars, scheduleVars>>

StartDecrypt(c, ciphertext) ==
    /\ Built
    /\ calls[c].op = "idle"
    /\ calls' = [calls EXCEPT ![c] =
            [@ EXCEPT !.op = "decrypt", !.input = ciphertext,
                      !.locals = DecryptEnter(generics, ciphertext)]]
    /\ UNCHANGED <<generics, key, expanded_key_table, wordVars, constVars, scheduleVars>>

DecryptRound(c) ==
    /\ calls[c].op = "decrypt"
    /\ ~IsPanic(calls[c].locals)
    /\ calls[c].locals[3] >= 1
    /\ calls' = [calls EXCEPT ![c].locals = DecryptRoundBody(expanded_key_table, @)]
    /\ UNCHANGED <<generics, key, expanded_key_table, wordVars, constVars, scheduleVars>>

DecryptReturn(c) ==
    /\ calls[c].op = "decrypt"
    /\ IF IsPanic(calls[c].locals) THEN TRUE ELSE calls[c].locals[3] < 1
    /\ calls' = [calls EXCEPT ![c] =
            [op |-> "idle", input |-> <<>>, locals |-> <<>>,
             done |-> Append(@.done,
                        <<"decrypt", @.input,
                          DecryptLeave(expanded_key_table, generics, @.locals)>>)]]
    /\ UNCHANGED <<generics, key, expanded_key_table, wordVars, constVars, scheduleVars>>

\* a caller's first call encrypts one of the blocks
EncryptChoices(c) == IF calls[c].done = <<>> THEN Blocks(generics) ELSE {}

\* its second call decrypts what the first returned
DecryptChoices(c) ==
    IF Len(calls[c].done) = 1 /\ ~IsPanic(calls[c].done[1][3])
    THEN {calls[c].done[1][3]} ELSE {}

Next ==
    \/ New
    \/ \E c \in Callers : \E plaintext \in EncryptChoices(c) : StartEncrypt(c, plaintext)
    \/ \E c \in Callers : EncryptRound(c)
    \/ \E c \in Callers : EncryptReturn(c)
    \/ \E c \in Callers : \E ciphertext \in DecryptChoices(c) : StartDecrypt(c, ciphertext)
    \/ \E c \in Callers : DecryptRound(c)
    \/ \E c \in Callers : DecryptReturn(c)

Spec == Init /\ [][Next]_vars

(***************************************************************************)
(* One run of new, which is one run of expand_key, a loop pass at a time.  *)
(* The seven const generics are independent parameters of the type: the    *)
(* run takes any KEY_AS_WORDS_LEN and EXPANDED_KEY_TABLE_LEN, whatever     *)
(* KEY_SIZE and WORD_SIZE are.  ROUNDS and BLOCK_SIZE are not read.  The   *)
(* short words are run with every combination of lengths, the words of up  *)
(* to MaxConstBytes bytes with the empty key and one round.                *)
(***************************************************************************)
KeyGenerics ==
    {Generics(8 * ws, 0, k, ws, 2 * ws, t, c) :
        ws \in 0..MaxWordLen, k \in 0..MaxKeyLen, t \in 0..MaxArrayLen, c \in 0..MaxArrayLen}
    \cup {Generics(8 * ws, 1, 0, ws, 2 * ws, 4, 1) : ws \in 0..MaxConstBytes}

\* keys of K bytes: 11 22 33 .. and FF FF FF ..
KeySamples(K) == {[i \in 1..K |-> 17 * i], AllOnes(K)}

\* a variant that makes three rounds over the table only
MixPasses_table_only == 3 * generics.EXPANDED_KEY_TABLE_LEN

\* the `for` of the mixing loop runs over 0..MixPasses
MixPasses == 3 * Max(generics.KEY_AS_WORDS_LEN, generics.EXPANDED_KEY_TABLE_LEN)

KeyInit ==
    /\ generics \in KeyGenerics
    /\ key \in KeySamples(generics.KEY_SIZE)
    /\ expanded_key_table = Unbuilt
    /\ calls = <<>>
    /\ ek_at = "enter"
    /\ ek_idx = 0
    /\ ek_p = Pending
    /\ ek_q = Pending
    /\ ek_key_as_words = <<>>
    /\ ek_expanded_key_table = <<>>
    /\ ek_expanded_key_word_idx = 0
    /\ ek_key_word_idx = 0
    /\ ek_last_expanded_key_word = <<>>
    /\ ek_last_key_word = <<>>
    /\ ek_rewritten = <<>>
    /\ WordIdle
    /\ ConstIdle

\* <<p::<WORD_BIT_SIZE, WORD_SIZE>(), q::<WORD_BIT_SIZE, WORD_SIZE>()>> of
\* the word sizes of KeyGenerics: the two are constants of an instantiation
MagicOf == [ws \in 0..Max(MaxWordLen, MaxConstBytes) |-> <<p(8 * ws, ws), q(8 * ws, ws)>>]

\* the run panics: new does not return
ExpandKeyPanics ==
    /\ ek_at' = "panicked"
    /\ UNCHANGED <<ek_idx, ek_p, ek_q, ek_key_as_words, ek_expanded_key_table,
                   ek_expanded_key_word_idx, ek_key_word_idx,
                   ek_last_expanded_key_word, ek_last_key_word, ek_rewritten>>

\* p, q and the zeroed key_as_words
ExpandKeyEnter ==
    /\ ek_at = "enter"
    /\ LET p_word == MagicOf[generics.WORD_SIZE][1]
           q_word == MagicOf[generics.WORD_SIZE][2]
       IN  IF IsPanic(p_word) \/ IsPanic(q_word) THEN ExpandKeyPanics
           ELSE /\ ek_p' = p_word
                /\ ek_q' = q_word
                /\ ek_key_as_words' =
                        [i \in 1..generics.KEY_AS_WORDS_LEN |-> Zeros(generics.WORD_SIZE)]
                /\ ek_idx' = generics.KEY_SIZE - 1
                /\ ek_at' = "pack"
                /\ UNCHANGED <<ek_expanded_key_table, ek_expanded_key_word_idx,
                               ek_key_word_idx, ek_last_expanded_key_word,
                               ek_last_key_word, ek_rewritten>>
    /\ UNCHANGED <<cipherVars, wordVars, constVars>>

\* one pass of `for idx in (0..KEY_SIZE).rev()`
PackKeyByte ==
    /\ ek_at = "pack"
    /\ ek_idx >= 0
    /\ LET packed == KeyAsWordsBody(generics, key, ek_key_as_words, ek_idx)
       IN  IF packed = PanicWords THEN ExpandKeyPanics
           ELSE /\ ek_key_as_words' = packed
                /\ ek_idx' = ek_idx - 1
                /\ UNCHANGED <<ek_at, ek_p, ek_q, ek_expanded_key_table,
                               ek_expanded_key_word_idx, ek_key_word_idx,
                               ek_last_expanded_key_word, ek_last_key_word, ek_rewritten>>
    /\ UNCHANGED <<cipherVars, wordVars, constVars>>

\* the zeroed expanded_key_table and expanded_key_table[0] = p
TableCreate ==
    /\ ek_at = "pack"
    /\ ek_idx < 0
    /\ IF generics.EXPANDED_KEY_TABLE_LEN = 0 THEN ExpandKeyPanics  \* index out of bounds
       ELSE /\ ek_expanded_key_table' =
                    [[i \in 1..generics.EXPANDED_KEY_TABLE_LEN |-> Zeros(generics.WORD_SIZE)]
                        EXCEPT ![1] = ek_p]
            /\ ek_idx' = 1
            /\ ek_at' = "extend"
            /\ UNCHANGED <<ek_p, ek_q, ek_key_as_words, ek_expanded_key_word_idx,
                           ek_key_word_idx, ek_last_expanded_key_word,
                           ek_last_key_word, ek_rewritten>>
    /\ UNCHANGED <<cipherVars, wordVars, constVars>>

\* one pass of `for idx in 1..expanded_key_table.len()`
TableExtend ==
    /\ ek_at = "extend"
    /\ ek_idx < Len(ek_expanded_key_table)
    /\ ek_expanded_key_table' = TableInitBody(ek_q, ek_expanded_key_table, ek_idx)
    /\ ek_idx' = ek_idx + 1
    /\ UNCHANGED <<ek_at, ek_p, ek_q, ek_key_as_words, ek_expanded_key_word_idx,
                   ek_key_word_idx, ek_last_expanded_key_word, ek_last_key_word,
                   ek_rewritten>>
    /\ UNCHANGED <<cipherVars, wordVars, constVars>>

\* the four locals of the mixing loop
MixEnter ==
    /\ ek_at = "extend"
    /\ ek_idx >= Len(ek_expanded_key_table)
    /\ ek_expanded_key_word_idx' = 0
    /\ ek_key_word_idx' = 0
    /\ ek_last_expanded_key_word' = Zeros(generics.WORD_SIZE)
    /\ ek_last_key_word' = Zeros(generics.WORD_SIZE)
    /\ ek_idx' = 0
    /\ ek_at' = "mix"
    /\ UNCHANGED <<ek_p, ek_q, ek_key_as_words, ek_expanded_key_table, ek_rewritten>>
    /\ UNCHANGED <<cipherVars, wordVars, constVars>>

\* one pass of `for _ in 0..3 * max(KEY_AS_WORDS_LEN, EXPANDED_KEY_TABLE_LEN)`
MixPass ==
    /\ ek_at = "mix"
    /\ ek_idx < MixPasses
    /\ LET mixed == MixStep(<<ek_expanded_key_table, ek_key_as_words,
                              ek_expanded_key_word_idx, ek_key_word_idx,
                              ek_last_expanded_key_word, ek_last_key_word>>)
       IN  IF IsPanic(mixed) THEN ExpandKeyPanics
           ELSE /\ ek_expanded_key_table' = mixed[1]
                /\ ek_key_as_words' = mixed[2]
                /\ ek_expanded_key_word_idx' = mixed[3]
                /\ ek_key_word_idx' = mixed[4]
                /\ ek_last_expanded_key_word' = mixed[5]
                /\ ek_last_key_word' = mixed[6]
                /\ ek_rewritten' =
                        Append(ek_rewritten, <<ek_expanded_key_word_idx, ek_key_word_idx>>)
                /\ ek_idx' = ek_idx + 1
                /\ UNCHANGED <<ek_at, ek_p, ek_q>>
    /\ UNCHANGED <<cipherVars, wordVars, constVars>>

\* expand_key returns its table and new stores it in the field
ExpandKeyReturn ==
    /\ ek_at = "mix"
    /\ ek_idx >= MixPasses
    /\ expanded_key_table' = ek_expanded_key_table
    /\ ek_at' = "returned"
    /\ UNCHANGED <<ek_idx, ek_p, ek_q, ek_key_as_words, ek_expanded_key_table,
                   ek_expanded_key_word_idx, ek_key_word_idx,
                   ek_last_expanded_key_word, ek_last_key_word, ek_rewritten>>
    /\ UNCHANGED <<generics, key, calls, wordVars, constVars>>

KeyNext ==
    \/ ExpandKeyEnter
    \/ PackKeyByte
    \/ TableCreate
    \/ TableExtend
    \/ MixEnter
    \/ MixPass
    \/ ExpandKeyReturn

SpecKey == KeyInit /\ [][KeyNext]_vars

\* the steps of a run between its loops
KeyStepBetweenLoops == ExpandKeyEnter \/ TableCreate \/ MixEnter \/ ExpandKeyReturn

\* one pass of one of the three loops
LoopPass == PackKeyByte \/ TableExtend \/ MixPass

\* a pass of a loop is due: LoopPass is enabled exactly here, as each of the
\* three actions either makes its pass or panics once its guard holds
LoopPassDue ==
    \/ ek_at = "pack" /\ ek_idx >= 0
    \/ ek_at = "extend" /\ ek_idx < Len(ek_expanded_key_table)
    \/ ek_at = "mix" /\ ek_idx < MixPasses

\* expand_key is sequential code: a run that is not over takes its next
\* step.  For the passes of the loops weak fairness is written with the
\* enabling condition of LoopPass spelled out (LoopPassDue).
FairSpecKey ==
    /\ SpecKey
    /\ WF_vars(KeyStepBetweenLoops)
    /\ ([]<>~LoopPassDue \/ []<><<LoopPass>>_vars)

(***************************************************************************)
(* Reference definitions the byte-integer methods are compared with.      *)
(***************************************************************************)
\* bit i (0-based, bit i % 8 of byte i / 8) of the array w
WordBit(w, i) == Bit(w[(i \div 8) + 1], i % 8)

\* the array of N bytes whose bit i is b[i]
RECURSIVE ByteOfBits(_, _, _)
ByteOfBits(b, j, k) ==
    IF k > 7 THEN 0 ELSE b[8 * j + k] * (2^k) + ByteOfBits(b, j, k + 1)

WordOfBits(b, N) == [j \in 1..N |-> ByteOfBits(b, j - 1, 0)]

\* the cyclic left rotation by m of the 8 * Len(w) bits of w: bit i of w
\* is bit (i + m) mod total of the result
CyclicLeft(w, m) ==
    LET total == 8 * Len(w)
    IN  WordOfBits([j \in 0..(total - 1) |-> WordBit(w, (j + total - (m % total)) % total)],
                   Len(w))

\* the modulus the rotation amount is reduced by: the bit count if it is
\* a power of two, else the largest power of two below it
Pow2UpTo(t) == {2^k : k \in 0..12} \cap 1..t

NormalizationModulus(total) ==
    IF total \in Pow2UpTo(total) THEN total
    ELSE CHOOSE m \in Pow2UpTo(total) : \A m2 \in Pow2UpTo(total) : m2 <= m

\* the little-endian value of an array of at most 3 bytes
RECURSIVE Value(_)
Value(w) == IF w = <<>> THEN 0 ELSE Head(w) + 256 * Value(Tail(w))

\* the N little-endian bytes of v
RECURSIVE BytesOf(_, _)
BytesOf(v, N) == IF N = 0 THEN <<>> ELSE <<v % 256>> \o BytesOf(v \div 256, N - 1)

\* (a + b + cin) mod 2^(8 * Len(a)), added 3 bytes (24 bits) at a time
RECURSIVE SumMod(_, _, _)
SumMod(a, b, cin) ==
    IF Len(a) <= 3 THEN BytesOf((Value(a) + Value(b) + cin) % (2^(8 * Len(a))), Len(a))
    ELSE
        LET lo == Value(SubSeq(a, 1, 3)) + Value(SubSeq(b, 1, 3)) + cin
        IN  BytesOf(lo % (2^24), 3)
            \o SumMod(SubSeq(a, 4, Len(a)), SubSeq(b, 4, Len(b)), lo \div (2^24))

(***************************************************************************)
(* Claims about the byte-integer methods, checked under SpecWord.          *)
(***************************************************************************)
\* C3: rotating left by n and then right by the same n gives the array back,
\* for every array and every rotation amount.
RotationInverse ==
    wops = <<"rotate_left", "rotate_right">> => wres[2] = wx

\* a 24-bit array rotated by an amount with high limbs set, and back
RotationInverseWitness ==
    /\ wops = <<"rotate_left", "rotate_right">>
    /\ Len(wx) = 3
    /\ wn[8] # 0
    /\ wres[1] # wx
    /\ wres[2] = wx

\* C4: subtracting b from a + b gives a back, carries and borrows included.
AddSubInverse ==
    wops = <<"wrapping_add", "wrapping_sub">> => wres[2] = wx

\* the addition carries out of the most significant byte and the
\* subtraction borrows across every byte
AddSubInverseWitness ==
    /\ wops = <<"wrapping_add", "wrapping_sub">>
    /\ wx = <<255, 255, 255>>
    /\ wrhs = <<1, 0, 0>>
    /\ wres[1] = <<0, 0, 0>>
    /\ wres[2] = wx

\* C5: rotate_left(x, n) is the cyclic left rotation of x by m = n mod M,
\* M the bit count if that is a power of two and else the largest power of
\* two below it; with m = 0 the array is returned unchanged.
RotateLeftBitExact ==
    (wops # <<>> /\ wops[1] = "rotate_left" /\ Len(wx) >= 1) =>
        LET m == U128Rem(wn, NormalizationModulus(8 * Len(wx)))
        IN  /\ wres[1] = CyclicLeft(wx, m)
            /\ m = 0 => wres[1] = wx

\* a 24-bit array rotated by 20: the code rotates by 20 mod 16 = 4
RotateLeftBitExactWitness ==
    /\ wops = <<"rotate_left">>
    /\ wx = <<141, 10, 191>>
    /\ wn = U128Of(20)
    /\ wres[1] = CyclicLeft(wx, 4)
    /\ wres[1] # CyclicLeft(wx, 20)

\* a 24-bit array rotated by 16 is unchanged
RotateLeftBy16Unchanged ==
    /\ wops = <<"rotate_left">>
    /\ wx = <<141, 10, 191>>
    /\ wn = U128Of(16)
    /\ wres[1] = wx

\* C7: every method returns an array of the receiver's length and never
\* panics, for every array length.
TotalArithmetic ==
    \A i \in 1..Len(wres) : wres[i] # Panic /\ Len(wres[i]) = Len(wx)

\* the same for arrays of at least one byte
TotalArithmeticNonEmpty ==
    Len(wx) >= 1 => TotalArithmetic

\* C10: wrapping_add is addition modulo 2^(8L) of the little-endian values.
WrappingAddIsSumMod ==
    (wops # <<>> /\ wops[1] = "wrapping_add") =>
        /\ wres[1] = SumMod(wx, wrhs, 0)
        /\ Len(wx) <= 3 =>
              Value(wres[1]) = (Value(wx) + Value(wrhs)) % (2^(8 * Len(wx)))

\* a carry runs through every byte and the carry out of the last is dropped
WrappingAddIsSumModWitness ==
    /\ wops = <<"wrapping_add">>
    /\ wx = <<255, 255, 255>>
    /\ wrhs = <<1, 0, 0>>
    /\ Value(wres[1]) = 0

(***************************************************************************)
(* Reference definitions the magic constants are compared with: the first  *)
(* bytes of the binary expansions of e - 2 and of phi - 1, most            *)
(* significant first.                                                      *)
(***************************************************************************)
\* e - 2 = 0.B7E151628AED2A6ABF7158809CF4F3C762E7160F... in base 16
EMinus2Bytes ==
    <<183, 225, 81, 98, 138, 237, 42, 106, 191, 113, 88, 128, 156, 244, 243, 199,
      98, 231, 22, 15>>

\* phi - 1 = 0.9E3779B97F4A7C15F39CC0605CEDC8341082276B... in base 16
PhiMinus1Bytes ==
    <<158, 55, 121, 185, 127, 74, 124, 21, 243, 156, 192, 96, 92, 237, 200, 52,
      16, 130, 39, 107>>

\* floor(x * 2^(8 * L)) as L little-endian bytes, x given by its expansion
FloorScaled(x, L) == [i \in 1..L |-> x[L + 1 - i]]

\* a little-endian integer plus one
RECURSIVE PlusOne(_)
PlusOne(w) ==
    IF w = <<>> THEN <<>>
    ELSE IF w[1] < 255 THEN <<w[1] + 1>> \o Tail(w)
    ELSE <<0>> \o PlusOne(Tail(w))

\* round(x * 2^(8 * L)), rounding to the nearest integer
RoundScaled(x, L) ==
    IF x[L + 1] >= 128 THEN PlusOne(FloorScaled(x, L)) ELSE FloorScaled(x, L)

\* odd(v): v + 1 for even v, v for odd v
OddOf(w) == IF w[1] % 2 = 0 THEN PlusOne(w) ELSE w

\* the generator is given consistent sizes of a supported word
SupportedConst == cWBIT >= 8 /\ cWBIT <= 128 /\ cWBIT = 8 * cWBYTE

(***************************************************************************)
(* C9 (as amended): for every word bit size W = 8 * L from 8 to 128, the   *)
(* generator returns P = odd(floor((e - 2) * 2^W)) and                     *)
(* Q = odd(floor((phi - 1) * 2^W)) as L little-endian bytes: the real is   *)
(* truncated to its integer part, not rounded to the nearest integer,      *)
(* before odd is applied.                                                  *)
(***************************************************************************)
MagicConstantsTruncated ==
    SupportedConst =>
        /\ cp # Pending => cp = OddOf(FloorScaled(EMinus2Bytes, cWBYTE))
        /\ cq # Pending => cq = OddOf(FloorScaled(PhiMinus1Bytes, cWBYTE))

\* both constants of a 16-bit word have been generated: E1 B7 and 37 9E
MagicConstantsTruncatedWitness ==
    /\ cWBIT = 16 /\ cWBYTE = 2
    /\ cp = <<225, 183>>
    /\ cq = <<55, 158>>

\* C9 (as stated): P = odd(round((e - 2) * 2^W)) and
\* Q = odd(round((phi - 1) * 2^W)), round being rounding to the nearest
\* integer.
MagicConstantsRounded ==
    SupportedConst =>
        /\ cp # Pending => cp = OddOf(RoundScaled(EMinus2Bytes, cWBYTE))
        /\ cq # Pending => cq = OddOf(RoundScaled(PhiMinus1Bytes, cWBYTE))

(***************************************************************************)
(* Properties of the cipher.                                               *)
(***************************************************************************)
\* the const generics are related as the comment on the struct says they
\* can be computed
DerivedGenerics ==
    /\ generics.WORD_BIT_SIZE = 8 * generics.WORD_SIZE
    /\ generics.BLOCK_SIZE = 2 * generics.WORD_SIZE
    /\ generics.EXPANDED_KEY_TABLE_LEN = 2 * (generics.ROUNDS + 1)
    /\ generics.KEY_AS_WORDS_LEN =
            Max((generics.KEY_SIZE + generics.WORD_SIZE - 1) \div generics.WORD_SIZE, 1)

\* the calls caller c has returned from, each <<method, input, output>>
Done(c) == calls[c].done

\* the call caller c returns from in this step
Returning(c) == calls'[c].done[Len(calls'[c].done)]

(***************************************************************************)
(* C1: whatever the instantiation, the key and the block, decrypt gives    *)
(* back the block that encrypt was given: a caller that has encrypted a    *)
(* block and decrypted the result holds the block again, and neither call  *)
(* panicked.  The instantiations include words of 24 and of 80 bits.  For  *)
(* const generics with consistent derived sizes (DerivedGenerics).         *)
(***************************************************************************)
RoundTrip ==
    DerivedGenerics =>
        \A c \in Callers :
            /\ Len(Done(c)) >= 1 =>
                    /\ Done(c)[1][1] = "encrypt"
                    /\ ~IsPanic(Done(c)[1][3])
                    /\ Len(Done(c)[1][3]) = generics.BLOCK_SIZE
            /\ Len(Done(c)) = 2 =>
                    /\ Done(c)[2][1] = "decrypt"
                    /\ Done(c)[2][2] = Done(c)[1][3]
                    /\ Done(c)[2][3] = Done(c)[1][2]

\* a block of two 80-bit words has gone through encrypt and decrypt
RoundTripWitness ==
    /\ generics = RC5_80_4_12
    /\ \E c \in Callers :
            /\ Len(Done(c)) = 2
            /\ Done(c)[1][2] = AllOnes(20)
            /\ Done(c)[1][3] # AllOnes(20)
            /\ Done(c)[2][3] = AllOnes(20)

(***************************************************************************)
(* C2: RC5-8/12/4 with the key 00 01 02 03 has a table of 26 words,        *)
(* encrypts 00 01 to 21 2A and decrypts 21 2A to 00 01.                    *)
(***************************************************************************)
KnownAnswer_8_12_4 ==
    (generics = RC5_8_12_4 /\ key = <<0, 1, 2, 3>>) =>
        /\ Built => Len(expanded_key_table) = 26
        /\ \A c \in Callers : \A i \in 1..Len(Done(c)) :
                /\ (Done(c)[i][1] = "encrypt" /\ Done(c)[i][2] = <<0, 1>>)
                        => Done(c)[i][3] = <<33, 42>>
                /\ (Done(c)[i][1] = "decrypt" /\ Done(c)[i][2] = <<33, 42>>)
                        => Done(c)[i][3] = <<0, 1>>

KnownAnswer_8_12_4_Witness ==
    /\ generics = RC5_8_12_4
    /\ key = <<0, 1, 2, 3>>
    /\ \E c \in Callers :
            Done(c) = << <<"encrypt", <<0, 1>>, <<33, 42>> >>,
                         <<"decrypt", <<33, 42>>, <<0, 1>> >> >>

(***************************************************************************)
(* C6: once new has returned, no step of any caller changes the table,     *)
(* and every call, whatever the other callers do during it, returns what   *)
(* encrypt or decrypt returns when run on the instance from start to end.  *)
(***************************************************************************)
TableFrozen ==
    expanded_key_table # Unbuilt => expanded_key_table' = expanded_key_table

ReturnsAsAlone ==
    \A c \in Callers :
        Len(calls'[c].done) > Len(calls[c].done) =>
            Returning(c)[3] =
                IF Returning(c)[1] = "encrypt"
                THEN encrypt(expanded_key_table, generics, Returning(c)[2])
                ELSE decrypt(expanded_key_table, generics, Returning(c)[2])

InstanceImmutable == [][TableFrozen /\ ReturnsAsAlone]_vars

\* two callers are inside the loops of their calls at once, one in encrypt
\* and one in decrypt
InstanceImmutableWitness ==
    \E c1, c2 \in Callers :
        /\ calls[c1].op = "encrypt" /\ ~IsPanic(calls[c1].locals)
        /\ calls[c1].locals[3] > 1 /\ calls[c1].locals[3] <= generics.ROUNDS
        /\ calls[c2].op = "decrypt" /\ ~IsPanic(calls[c2].locals)
        /\ calls[c2].locals[3] >= 1 /\ calls[c2].locals[3] < generics.ROUNDS

(***************************************************************************)
(* C8: RC5-24/4/0 with the empty key has a table of 10 words and one key   *)
(* word, encrypts 00 01 02 03 04 05 to 89 CB DC C9 52 5A and decrypts      *)
(* that to 00 01 02 03 04 05; a 24-bit word is rotated by the amount       *)
(* modulo 16.                                                              *)
(***************************************************************************)
KnownAnswer_24_4_0 ==
    (generics = RC5_24_4_0 /\ key = <<>>) =>
        /\ generics.KEY_AS_WORDS_LEN = 1
        /\ Built => Len(expanded_key_table) = 10
        /\ \A c \in Callers : \A i \in 1..Len(Done(c)) :
                /\ (Done(c)[i][1] = "encrypt" /\ Done(c)[i][2] = <<0, 1, 2, 3, 4, 5>>)
                        => Done(c)[i][3] = <<137, 203, 220, 201, 82, 90>>
                /\ (Done(c)[i][1] = "decrypt"
                        /\ Done(c)[i][2] = <<137, 203, 220, 201, 82, 90>>)
                        => Done(c)[i][3] = <<0, 1, 2, 3, 4, 5>>

KnownAnswer_24_4_0_Witness ==
    /\ generics = RC5_24_4_0
    /\ key = <<>>
    /\ \E c \in Callers :
            Done(c) = << <<"encrypt", <<0, 1, 2, 3, 4, 5>>, <<137, 203, 220, 201, 82, 90>> >>,
                         <<"decrypt", <<137, 203, 220, 201, 82, 90>>, <<0, 1, 2, 3, 4, 5>> >> >>

(***************************************************************************)
(* The key schedule, pass by pass.                                        *)
(***************************************************************************)
\* the run of expand_key a pass at a time computes what expand_key computes
StepwiseAgrees ==
    /\ ek_at = "returned" => expanded_key_table = expand_key(generics, key)
    /\ ek_at = "panicked" => expand_key(generics, key) = PanicWords

\* the loop over the key bytes is over and the mixing loop has not begun
KeyPackingDone == (ek_at = "pack" /\ ek_idx < 0) \/ ek_at = "extend"

\* byte i of the zero-padded chunk j of the key
KeyChunkByte(j, i) ==
    IF j * generics.WORD_SIZE + i < generics.KEY_SIZE
    THEN key[j * generics.WORD_SIZE + i + 1]
    ELSE 0

\* C11: once the loop over the key bytes is over, byte i of key_as_words[j]
\* is key[j * WORD_SIZE + i] where that index is below KEY_SIZE and 0
\* elsewhere, for every word j and every i < WORD_SIZE: each word is its
\* chunk of the key read little-endian and padded with zeros.
KeyPacking ==
    KeyPackingDone =>
        /\ Len(ek_key_as_words) = generics.KEY_AS_WORDS_LEN
        /\ \A j \in 0..(generics.KEY_AS_WORDS_LEN - 1) :
                /\ Len(ek_key_as_words[j + 1]) = generics.WORD_SIZE
                /\ \A i \in 0..(generics.WORD_SIZE - 1) :
                        ek_key_as_words[j + 1][i + 1] = KeyChunkByte(j, i)

\* a key of 4 bytes packed into two words of 3 bytes, the second one padded
KeyPackingWitness ==
    /\ KeyPackingDone
    /\ generics.WORD_SIZE = 3
    /\ key = <<17, 34, 51, 68>>
    /\ ek_key_as_words = <<<<17, 34, 51>>, <<68, 0, 0>>>>

\* keys of 3 bytes packed into words of 1 byte, and an empty key
KeyPackingEdgeWitness ==
    /\ KeyPackingDone
    /\ \/ generics.WORD_SIZE = 1 /\ key = <<17, 34, 51>>
              /\ ek_key_as_words = <<<<17>>, <<34>>, <<51>>>>
       \/ generics.WORD_SIZE = 2 /\ key = <<>> /\ ek_key_as_words = <<<<0, 0>>>>

\* words have bytes and neither array is empty
MixNonEmpty ==
    /\ generics.WORD_SIZE >= 1
    /\ generics.KEY_AS_WORDS_LEN >= 1
    /\ generics.EXPANDED_KEY_TABLE_LEN >= 1

\* the passes that wrote index i of the table (which = 1) or of the key
\* words (which = 2)
TimesRewritten(which, i) ==
    Cardinality({n \in 1..Len(ek_rewritten) : ek_rewritten[n][which] = i})

\* 3 * max(len(L), T), from the lengths of the two arrays
ThreeRounds == 3 * Max(Len(ek_key_as_words), Len(ek_expanded_key_table))

\* in the mixing loop and after it: pass i wrote table[i mod T] and
\* L[i mod len(L)], both indices are in range, the carried words are zero
\* before pass 0, and the loop does not panic
MixingInvariant ==
    MixNonEmpty =>
        /\ ek_at \in {"mix", "returned"} =>
                /\ Len(ek_expanded_key_table) = generics.EXPANDED_KEY_TABLE_LEN
                /\ Len(ek_key_as_words) = generics.KEY_AS_WORDS_LEN
                /\ Len(ek_rewritten) = ek_idx
                /\ ek_idx <= ThreeRounds
                /\ \A i \in 0..(Len(ek_rewritten) - 1) :
                        ek_rewritten[i + 1] = <<i % Len(ek_expanded_key_table),
                                                i % Len(ek_key_as_words)>>
                /\ ek_expanded_key_word_idx \in 0..(Len(ek_expanded_key_table) - 1)
                /\ ek_key_word_idx \in 0..(Len(ek_key_as_words) - 1)
                /\ ek_idx = 0 =>
                        /\ ek_last_expanded_key_word = Zeros(generics.WORD_SIZE)
                        /\ ek_last_key_word = Zeros(generics.WORD_SIZE)
        /\ ek_at = "panicked" => ek_expanded_key_table = <<>>

\* the loop is over: exactly 3 * max(len(L), T) passes were made and every
\* word of either array was written three times or more
MixingOver ==
    /\ ek_at = "returned"
    /\ Len(ek_rewritten) = ThreeRounds
    /\ \A t \in 0..(Len(ek_expanded_key_table) - 1) : TimesRewritten(1, t) >= 3
    /\ \A k \in 0..(Len(ek_key_as_words) - 1) : TimesRewritten(2, k) >= 3

\* a pass writes one word of the table and one key word, which are the
\* words it carries to the next pass, and leaves the other words alone
MixPassRewrites ==
    (ek_at = "mix" /\ ek_at' = "mix" /\ ek_idx' = ek_idx + 1) =>
        /\ \A t \in 1..Len(ek_expanded_key_table) :
                t # ek_expanded_key_word_idx + 1 =>
                    ek_expanded_key_table'[t] = ek_expanded_key_table[t]
        /\ \A k \in 1..Len(ek_key_as_words) :
                k # ek_key_word_idx + 1 => ek_key_as_words'[k] = ek_key_as_words[k]
        /\ ek_last_expanded_key_word' = ek_expanded_key_table'[ek_expanded_key_word_idx + 1]
        /\ ek_last_key_word' = ek_key_as_words'[ek_key_word_idx + 1]

\* the mixing loop is about to make its first pass
MixingBegins == ek_at = "mix" /\ ek_idx = 0 /\ MixNonEmpty

\* C12: the mixing loop of the key schedule ends after exactly
\* 3 * max(len(L), T) passes; pass i (from 0) rewrites table[i mod T] and
\* then L[i mod len(L)], the two carried words being zero before pass 0;
\* both indices are in range at every pass, and when the loop ends every
\* word of the table and every key word has been rewritten at least three
\* times.  For arrays that are not empty and words of at least one byte.
MixingLoop ==
    /\ []MixingInvariant
    /\ [][MixPassRewrites]_vars
    /\ [](ek_at = "returned" /\ MixNonEmpty => MixingOver)
    /\ MixingBegins ~> MixingOver

\* a run with more key words than table words has ended: 9 passes over a
\* table of 2 words and 3 key words
MixingLoopWitness ==
    /\ MixingOver
    /\ generics.WORD_SIZE = 2
    /\ Len(ek_key_as_words) = 3
    /\ Len(ek_expanded_key_table) = 2
    /\ Len(ek_rewritten) = 9
    /\ ek_rewritten[9] = <<0, 2>>
    /\ TimesRewritten(1, 0) = 5
    /\ TimesRewritten(2, 2) = 3

(***************************************************************************)
(* The size of the table and the indices encrypt and decrypt read.        *)
(***************************************************************************)
\* the table of an instance has 2 * (ROUNDS + 1) words
TableSized == Built => Len(expanded_key_table) = 2 * (generics.ROUNDS + 1)

\* no call of encrypt or decrypt has panicked, in its passes or at its return
NoCallFails ==
    \A c \in Callers :
        /\ ~IsPanic(calls[c].locals)
        /\ \A n \in 1..Len(calls[c].done) : ~IsPanic(calls[c].done[n][3])

\* new fails only where p or q cannot be represented
OnlyConstantsFail ==
    expanded_key_table = PanicWords =>
        \/ IsPanic(p(generics.WORD_BIT_SIZE, generics.WORD_SIZE))
        \/ IsPanic(q(generics.WORD_BIT_SIZE, generics.WORD_SIZE))

\* C13: the table of every instance new returns has 2 * (R + 1) words, the
\* indices encrypt and decrypt read are all within it, so that no call of
\* encrypt or decrypt on an instance fails; new fails only with the fatal
\* error of the constants.
SubkeyIndexSafety == TableSized /\ NoCallFails /\ OnlyConstantsFail

\* the same for the instantiations whose const generics are the derived ones
SubkeyIndexSafetyDerived == DerivedGenerics => SubkeyIndexSafety

\* a call of encrypt and a call of decrypt have returned on an instance with
\* the derived const generics
SubkeyIndexSafetyDerivedWitness ==
    /\ DerivedGenerics
    /\ generics.ROUNDS = 12
    /\ \E c \in Callers : Len(calls[c].done) = 2

(***************************************************************************)
(* The parity of the magic constants and of the table they seed.          *)
(***************************************************************************)
\* the bytes k, k + 1, .. of P + i * Q + carry * 256^(k - 1), the carry out
\* of the last byte being dropped: (P + i * Q) mod 2^(8 * Len(P)) for k = 1
RECURSIVE AffineFrom(_, _, _, _, _)
AffineFrom(P, Q, i, k, carry) ==
    IF k > Len(P) THEN <<>>
    ELSE <<(P[k] + i * Q[k] + carry) % 256>>
            \o AffineFrom(P, Q, i, k + 1, (P[k] + i * Q[k] + carry) \div 256)

\* bit 0 of byte 0 of the word w is 1
IsOddWord(w) == w[1] % 2 = 1

\* p and q have returned words of at least one byte
MagicReturned == ek_p # Pending /\ generics.WORD_SIZE >= 1

\* the entries of the table that are written and not yet mixed: all of them
\* when the loop that fills the table is over
SeededEntries ==
    IF ek_at = "extend" THEN Min(ek_idx, Len(ek_expanded_key_table))
    ELSE IF ek_at = "mix" /\ ek_idx = 0 THEN Len(ek_expanded_key_table)
    ELSE 0

\* C14: for every word size for which p and q return, the words they
\* return are odd (bit 0 of byte 0 is 1), also after the u128 is cut to its
\* WORD_SIZE low-order little-endian bytes; so, before mixing, entry i of
\* the table is (P + i * Q) mod 2^(8 * WORD_SIZE), which is odd exactly when
\* i is even.
OddMagicConstants ==
    MagicReturned =>
        /\ Len(ek_p) = generics.WORD_SIZE /\ IsOddWord(ek_p)
        /\ Len(ek_q) = generics.WORD_SIZE /\ IsOddWord(ek_q)
        /\ \A i \in 0..(SeededEntries - 1) :
                /\ ek_expanded_key_table[i + 1] = AffineFrom(ek_p, ek_q, i, 1, 0)
                /\ IsOddWord(ek_expanded_key_table[i + 1]) <=> i % 2 = 0

\* the table of a 16-bit instantiation before mixing: B7E1, 5618, F44F, 9286
OddMagicConstantsWitness ==
    /\ ek_at = "mix" /\ ek_idx = 0
    /\ ek_p = <<225, 183>>
    /\ ek_q = <<55, 158>>
    /\ ek_expanded_key_table = <<<<225, 183>>, <<24, 86>>, <<79, 244>>, <<134, 146>>>>

\* the same for the widest word p and q return: 128 bits
OddMagicConstantsWideWitness ==
    /\ ek_at = "mix" /\ ek_idx = 0
    /\ generics.WORD_SIZE = 16
    /\ IsOddWord(ek_p) /\ IsOddWord(ek_q)
    /\ SeededEntries = 4

====
